---- MODULE Spec2Model ----
(***************************************************************************)
(* A model of bored-api.py: the BoredApiWidget form, its three query       *)
(* handlers (query_random, query_key, query_multi), the clear handler and  *)
(* the executor _query, which sends one blocking GET and renders the       *)
(* response into output_layout.                                            *)
(*                                                                         *)
(* Text that ends up in the query URL is a sequence of one-character       *)
(* strings, so that f-string interpolation is concatenation and "the query *)
(* string contains name=value" is a statement about the characters sent.   *)
(* Text that is only displayed (label texts, JSON strings) is a string.    *)
(***************************************************************************)
EXTENDS Integers, Sequences, FiniteSets, TLC

VARIABLES
    key_input_field,           \* text of the key QLineEdit
    d_multi_input_fields,      \* input_name -> text of the exact QLineEdit
    d_multi_input_min_fields,  \* input_name -> text of the minimum QLineEdit
    d_multi_input_max_fields,  \* input_name -> text of the maximum QLineEdit
    output_layout,             \* the items of the right-hand QFormLayout, in order
    lastOp,                    \* the handler that ran last
    request,                   \* the URL the last handler passed to requests.get
    response,                  \* the response the last handler received
    parsed,                    \* whether the last handler called response.json()
    deleted,                   \* how many widgets the last handler's _cleanup deleted
    raised                     \* the exception the last handler ended with

vars == <<key_input_field, d_multi_input_fields, d_multi_input_min_fields,
          d_multi_input_max_fields, output_layout, lastOp, request, response,
          parsed, deleted, raised>>

form == <<key_input_field, d_multi_input_fields, d_multi_input_min_fields,
          d_multi_input_max_fields>>

----------------------------------------------------------------------------
(* Bounds *)

\* The most text fields that are non-empty at the same time.
MaxFilled == 3

----------------------------------------------------------------------------
(* The form *)

BORED_API_URL ==
    <<"h","t","t","p",":","/","/","b","o","r","e","d",".","a","p","i",".",
      "l","e","w","a","g","o","n",".","c","o","m","/","a","p","i","/",
      "a","c","t","i","v","i","t","y","/">>

\* The keys of d_multi_input_fields in insertion order, which is the order
\* a Python dict iterates in.
ParamOrder == <<"type", "participants", "price", "accessibility">>

ParamNames == {ParamOrder[i] : i \in 1..Len(ParamOrder)}

\* The characters of an input name, as the f-strings interpolate them.
NameChars(input_name) ==
    CASE input_name = "type"          -> <<"t","y","p","e">>
      [] input_name = "participants"  -> <<"p","a","r","t","i","c","i","p","a","n","t","s">>
      [] input_name = "price"         -> <<"p","r","i","c","e">>
      [] input_name = "accessibility" -> <<"a","c","c","e","s","s","i","b","i","l","i","t","y">>

\* allow_range of each _add_param_entry call: the range row of a parameter
\* is added to the form only when it is TRUE.
allow_range(input_name) == input_name # "type"

Empty == <<>>

\* What the user types: nothing or a plain value, and into the type field and
\* the minimum price field also a value that holds the separator characters
\* of a query string (a QLineEdit takes any text).
KeyTexts   == {Empty, <<"1">>}
ExactTexts == {Empty, <<"1">>}
MinTexts   == {Empty, <<"1">>}
MaxTexts   == {Empty, <<"2">>}
TypeTexts     == ExactTexts \cup {<<"1","&","m","i","n","t","y","p","e","=","2">>}
MinPriceTexts == MinTexts \cup {<<"1","&","p","r","i","c","e","=","2">>}

\* The line edits the user can type into: the key field, every exact field,
\* and the range fields of the parameters whose range row is on the form.
EditableFields ==
    {<<"key", "key">>}
    \cup {<<"exact", n>> : n \in ParamNames}
    \cup {<<"min", n>> : n \in {m \in ParamNames : allow_range(m)}}
    \cup {<<"max", n>> : n \in {m \in ParamNames : allow_range(m)}}

TextsOf(f) ==
    CASE f[1] = "key"   -> KeyTexts
      [] f[1] = "exact" -> IF f[2] = "type" THEN TypeTexts ELSE ExactTexts
      [] f[1] = "min"   -> IF f[2] = "price" THEN MinPriceTexts ELSE MinTexts
      [] f[1] = "max"   -> MaxTexts

Filled(key, exact, minf, maxf) ==
    Cardinality({n \in ParamNames : exact[n] # Empty})
    + Cardinality({n \in ParamNames : minf[n] # Empty})
    + Cardinality({n \in ParamNames : maxf[n] # Empty})
    + (IF key # Empty THEN 1 ELSE 0)

----------------------------------------------------------------------------
(* The HTTP response and its JSON body *)

\* JSON values: null, a string, a number.
JNull     == [t |-> "null", s |-> "", n |-> 0]
JStr(str) == [t |-> "str", s |-> str, n |-> 0]
JNum(num) == [t |-> "num", s |-> "", n |-> num]

Pair(k, v) == [key |-> k, value |-> v]

\* A body is a JSON object (its pairs in the order the API sent them) or
\* text that is no JSON at all.
Object(pairs) == [kind |-> "object", items |-> pairs]
InvalidBody   == [kind |-> "invalid", items |-> <<>>]
NoBody        == [kind |-> "none", items |-> <<>>]

Bodies ==
    { Object(<<>>),
      Object(<<Pair("activity", JStr("Learn a new language")),
               Pair("type", JStr("education")),
               Pair("error", JNull)>>),
      Object(<<Pair("error", JStr("Not enough parameters")),
               Pair("key", JStr("1"))>>),
      Object(<<Pair("error", JStr("")),
               Pair("participants", JNum(1))>>),
      InvalidBody }

\* The responses the API gives: 200 with any of the bodies, and a failure
\* status with a JSON body or with text that is no JSON.
Responses ==
    [status_code : {200}, body : Bodies]
    \cup { [status_code |-> 404,
            body |-> Object(<<Pair("activity", JStr("Learn a new language")),
                              Pair("type", JStr("education")),
                              Pair("error", JNull)>>)],
           [status_code |-> 500, body |-> InvalidBody] }

\* No response: the handler sent no request, or requests.get raised.
NoResponse == [status_code |-> 0, body |-> NoBody]

NoRequest == <<>>

\* f"{value}" of a parsed JSON value.
Str(v) ==
    CASE v.t = "null" -> "None"
      [] v.t = "str"  -> v.s
      [] v.t = "num"  -> ToString(v.n)

\* A faulty truth test: `if error_message is not None:`.
Truthy_notNone(v) == v.t # "null"

\* The truth value Python gives a parsed JSON value in `if error_message:`.
Truthy(v) ==
    CASE v.t = "null" -> FALSE
      [] v.t = "str"  -> v.s # ""
      [] v.t = "num"  -> v.n # 0

\* d_response.get(k): the value under k, None when k is no key.
Get(d_response, k) ==
    IF \E i \in 1..Len(d_response) : d_response[i].key = k
    THEN d_response[CHOOSE i \in 1..Len(d_response) : d_response[i].key = k].value
    ELSE JNull

----------------------------------------------------------------------------
(* The output panel *)

Label(kind, text) == [kind |-> kind, text |-> text]

\* A faulty _cleanup: `if` in place of `while`, one item taken.
_cleanup_once(layout) ==
    IF Len(layout) = 0 THEN layout ELSE Tail(layout)

\* while self.output_layout.count(): takeAt(0), deleteLater(). Every item of
\* output_layout is a QLabel, so child.widget() is never None.
RECURSIVE _cleanup(_)
_cleanup(layout) ==
    IF Len(layout) = 0 THEN layout ELSE _cleanup(Tail(layout))

_display_error(layout, message) ==
    Append(layout,
           Label("error_label",
                 "<span style='color:red;'>ERROR: " \o message \o "</span>"))

\* for key, value in d_response.items(): addRow(QLabel(key:), QLabel(value)).
RECURSIVE addRows(_, _)
addRows(layout, d_response) ==
    IF Len(d_response) = 0 THEN layout
    ELSE addRows(layout \o <<Label("key_label", Head(d_response).key \o ":"),
                             Label("value_label", Str(Head(d_response).value))>>,
                 Tail(d_response))

Outcome(layout, exc, didParse) ==
    [output_layout |-> layout, raised |-> exc, parsed |-> didParse]

----------------------------------------------------------------------------
(* The executor *)

\* A faulty status test: only server errors count as failures.
status_ok_below500(resp) == resp.status_code < 500

\* response.status_code != 200, negated.
status_ok(resp) == resp.status_code = 200

\* A faulty lookup: the wrong key.
error_message_wrongKey(d_response) == Get(d_response, "message")

\* error_message = d_response.get("error")
error_message(d_response) == Get(d_response, "error")

\* _query(query): the GET has returned resp (NoResponse: requests.get
\* raised). The result is the output panel, the exception the call ends
\* with, and whether response.json() was called.
_query(layout, resp) ==
    IF resp = NoResponse
    THEN Outcome(layout, "ConnectionError", FALSE)
    ELSE IF ~status_ok(resp)
    THEN Outcome(_display_error(layout, "API request failed: "
                                        \o ToString(resp.status_code)),
                 "none", FALSE)
    ELSE IF resp.body.kind = "invalid"
    THEN Outcome(layout, "JSONDecodeError", TRUE)
    ELSE LET d_response == resp.body.items
         IN  IF Truthy(error_message(d_response))
             THEN Outcome(_display_error(layout, "API request returned error: "
                                                 \o Str(error_message(d_response))),
                          "none", TRUE)
             ELSE Outcome(addRows(layout, d_response), "none", TRUE)

----------------------------------------------------------------------------
(* The query builder *)

\* A faulty loop body: the separator after the max fragment is left out.
fragment_noSep(input_name, value, min_value, max_value) ==
    IF value # Empty
    THEN NameChars(input_name) \o <<"=">> \o value \o <<"&">>
    ELSE (IF min_value # Empty
          THEN <<"m","i","n">> \o NameChars(input_name) \o <<"=">> \o min_value \o <<"&">>
          ELSE Empty)
         \o (IF max_value # Empty
             THEN <<"m","a","x">> \o NameChars(input_name) \o <<"=">> \o max_value
             ELSE Empty)

\* One pass of the loop of query_multi: what it appends to query_tail for
\* one parameter. An exact value ends the pass (continue).
fragment(input_name, value, min_value, max_value) ==
    IF value # Empty
    THEN NameChars(input_name) \o <<"=">> \o value \o <<"&">>
    ELSE (IF min_value # Empty
          THEN <<"m","i","n">> \o NameChars(input_name) \o <<"=">> \o min_value \o <<"&">>
          ELSE Empty)
         \o (IF max_value # Empty
             THEN <<"m","a","x">> \o NameChars(input_name) \o <<"=">> \o max_value \o <<"&">>
             ELSE Empty)

\* query_tail after the loop has run over the parameters from the i-th on.
RECURSIVE query_tail(_, _, _, _)
query_tail(i, exact, minf, maxf) ==
    IF i > Len(ParamOrder) THEN Empty
    ELSE fragment(ParamOrder[i], exact[ParamOrder[i]], minf[ParamOrder[i]],
                  maxf[ParamOrder[i]])
         \o query_tail(i + 1, exact, minf, maxf)

\* A faulty key test: `if key is None`, which a QLineEdit's text never is.
no_key_isNone(key) == FALSE

\* `if not key`
no_key(key) == key = Empty

----------------------------------------------------------------------------
(* The handlers *)

Init ==
    /\ key_input_field = Empty
    /\ d_multi_input_fields = [n \in ParamNames |-> Empty]
    /\ d_multi_input_min_fields = [n \in ParamNames |-> Empty]
    /\ d_multi_input_max_fields = [n \in ParamNames |-> Empty]
    /\ output_layout = <<>>
    /\ lastOp = "__init__"
    /\ request = NoRequest
    /\ response = NoResponse
    /\ parsed = FALSE
    /\ deleted = 0
    /\ raised = "none"

\* The handler sends nothing.
NoQuery ==
    /\ request' = NoRequest
    /\ response' = NoResponse
    /\ parsed' = FALSE
    /\ raised' = "none"

\* The user edits one line edit. Qt changes its text and nothing else.
setText(f, text) ==
    /\ key_input_field' =
           IF f[1] = "key" THEN text ELSE key_input_field
    /\ d_multi_input_fields' =
           IF f[1] = "exact" THEN [d_multi_input_fields EXCEPT ![f[2]] = text]
           ELSE d_multi_input_fields
    /\ d_multi_input_min_fields' =
           IF f[1] = "min" THEN [d_multi_input_min_fields EXCEPT ![f[2]] = text]
           ELSE d_multi_input_min_fields
    /\ d_multi_input_max_fields' =
           IF f[1] = "max" THEN [d_multi_input_max_fields EXCEPT ![f[2]] = text]
           ELSE d_multi_input_max_fields

UserEdit ==
    \E f \in EditableFields : \E text \in TextsOf(f) :
        /\ setText(f, text)
        /\ Filled(key_input_field', d_multi_input_fields',
                  d_multi_input_min_fields', d_multi_input_max_fields') <= MaxFilled
        /\ lastOp' = "edit"
        /\ NoQuery
        /\ deleted' = 0
        /\ UNCHANGED output_layout

\* A faulty _clear: the maximum fields are forgotten.
_clear_noMax ==
    /\ key_input_field' = Empty
    /\ d_multi_input_fields' = [n \in DOMAIN d_multi_input_fields |-> Empty]
    /\ d_multi_input_min_fields' = [n \in DOMAIN d_multi_input_fields |-> Empty]
    /\ lastOp' = "_clear"
    /\ NoQuery
    /\ deleted' = 0
    /\ UNCHANGED <<d_multi_input_max_fields, output_layout>>

_clear ==
    /\ key_input_field' = Empty
    /\ d_multi_input_fields' = [n \in DOMAIN d_multi_input_fields |-> Empty]
    /\ d_multi_input_min_fields' = [n \in DOMAIN d_multi_input_fields |-> Empty]
    /\ d_multi_input_max_fields' = [n \in DOMAIN d_multi_input_fields |-> Empty]
    /\ lastOp' = "_clear"
    /\ NoQuery
    /\ deleted' = 0
    /\ UNCHANGED output_layout

\* self._query(query) on the panel `layout`, the GET answered by resp.
Send(layout, query, resp) ==
    /\ request' = query
    /\ response' = resp
    /\ output_layout' = _query(layout, resp).output_layout
    /\ parsed' = _query(layout, resp).parsed
    /\ raised' = _query(layout, resp).raised

query_random ==
    \E resp \in Responses \cup {NoResponse} :
        /\ Send(_cleanup(output_layout), BORED_API_URL, resp)
        /\ lastOp' = "query_random"
        /\ deleted' = Len(output_layout) - Len(_cleanup(output_layout))
        /\ UNCHANGED form

query_key ==
    /\ lastOp' = "query_key"
    /\ deleted' = Len(output_layout) - Len(_cleanup(output_layout))
    /\ UNCHANGED form
    /\ IF no_key(key_input_field)
       THEN /\ output_layout' = _display_error(_cleanup(output_layout), "No key provided")
            /\ NoQuery
       ELSE \E resp \in Responses \cup {NoResponse} :
                Send(_cleanup(output_layout),
                     BORED_API_URL \o <<"?","k","e","y","=">> \o key_input_field,
                     resp)

query_multi ==
    \E resp \in Responses \cup {NoResponse} :
        /\ Send(_cleanup(output_layout),
                BORED_API_URL \o <<"?">>
                \o query_tail(1, d_multi_input_fields, d_multi_input_min_fields,
                              d_multi_input_max_fields),
                resp)
        /\ lastOp' = "query_multi"
        /\ deleted' = Len(output_layout) - Len(_cleanup(output_layout))
        /\ UNCHANGED form

Next ==
    \/ UserEdit
    \/ _clear
    \/ query_random
    \/ query_key
    \/ query_multi

Spec == Init /\ [][Next]_vars

QueryOps == {"query_random", "query_key", "query_multi"}

----------------------------------------------------------------------------
(* Reading the query string that was sent *)

\* The query string holds the text s at the start of a parameter: right
\* after the "?" or after a "&".
ContainsParam(url, s) ==
    \E i \in 2..(Len(url) - Len(s) + 1) :
        /\ url[i - 1] \in {"?", "&"}
        /\ SubSeq(url, i, i + Len(s) - 1) = s

Eq == <<"=">>
Min(input_name) == <<"m","i","n">> \o NameChars(input_name) \o Eq
Max(input_name) == <<"m","a","x">> \o NameChars(input_name) \o Eq

HasSeparator(text) == \E i \in 1..Len(text) : text[i] = "&"

\* No field holds a "&".
PlainForm ==
    /\ ~HasSeparator(key_input_field)
    /\ \A n \in ParamNames :
           /\ ~HasSeparator(d_multi_input_fields[n])
           /\ ~HasSeparator(d_multi_input_min_fields[n])
           /\ ~HasSeparator(d_multi_input_max_fields[n])

ErrorLabel(message) ==
    [kind |-> "error_label",
     text |-> "<span style='color:red;'>ERROR: " \o message \o "</span>"]

----------------------------------------------------------------------------
(* Properties *)

\* C1: after query_multi, every parameter whose exact field is non-empty has
\* name=value in the query string sent, and the query string holds no
\* minname= and no maxname= parameter, whatever the fields hold.
C1_ExactPrecedence ==
    lastOp = "query_multi" =>
        \A n \in ParamNames :
            d_multi_input_fields[n] # Empty =>
                /\ ContainsParam(request, NameChars(n) \o Eq \o d_multi_input_fields[n])
                /\ ~ContainsParam(request, Min(n))
                /\ ~ContainsParam(request, Max(n))

\* C1 for the forms none of whose fields holds a "&".
C1_ExactPrecedence_Plain == PlainForm => C1_ExactPrecedence

\* A parameter with all three fields filled was queried: only name=value is sent.
C1_Plain_Reached ==
    /\ lastOp = "query_multi"
    /\ d_multi_input_fields["price"] = <<"1">>
    /\ d_multi_input_min_fields["price"] = <<"1">>
    /\ d_multi_input_max_fields["price"] = <<"2">>
    /\ request = BORED_API_URL \o <<"?","p","r","i","c","e","=","1","&">>

\* C2: after query_multi, every parameter of which only the min field is
\* non-empty has minname=<v> in the query string sent, and the query string
\* holds no name= and no maxname= parameter.
C2_MinOnly ==
    lastOp = "query_multi" =>
        \A n \in ParamNames :
            ( /\ d_multi_input_fields[n] = Empty
              /\ d_multi_input_min_fields[n] # Empty
              /\ d_multi_input_max_fields[n] = Empty ) =>
                /\ ContainsParam(request, Min(n) \o d_multi_input_min_fields[n])
                /\ ~ContainsParam(request, NameChars(n) \o Eq)
                /\ ~ContainsParam(request, Max(n))

\* C2 for the forms none of whose fields holds a "&".
C2_MinOnly_Plain == PlainForm => C2_MinOnly

\* C3: after query_key with an empty key field the panel holds exactly the
\* error "No key provided" and no request was sent.
C3_NoKey ==
    (lastOp = "query_key" /\ key_input_field = Empty) =>
        /\ output_layout = <<ErrorLabel("No key provided")>>
        /\ request = NoRequest
        /\ response = NoResponse
        /\ ~parsed

\* query_key ran with an empty key on a panel that showed three result rows.
C3_Reached ==
    /\ lastOp = "query_key"
    /\ key_input_field = Empty
    /\ deleted = 6
    /\ request = NoRequest
    /\ Len(output_layout) = 1

\* C4: after a query answered with a status other than 200 the panel holds
\* exactly the error "API request failed: <status>" and the body was not
\* parsed, whatever the body.
C4_NonOkStatus ==
    (lastOp \in QueryOps /\ response # NoResponse /\ response.status_code # 200) =>
        /\ output_layout =
               <<ErrorLabel("API request failed: " \o ToString(response.status_code))>>
        /\ ~parsed
        /\ raised = "none"

\* Status 500 with a body that is no JSON: the error is shown, nothing raised.
C4_Reached ==
    /\ lastOp \in QueryOps
    /\ response = [status_code |-> 500, body |-> InvalidBody]
    /\ output_layout =
           <<[kind |-> "error_label",
              text |-> "<span style='color:red;'>ERROR: API request failed: 500</span>"]>>

\* C5: after a query answered with status 200 and a JSON object whose
\* "error" field is a non-empty string, the panel holds exactly the error
\* "API request returned error: <message>" and none of the body's pairs.
C5_ApiError ==
    (lastOp \in QueryOps /\ response.status_code = 200
                         /\ response.body.kind = "object") =>
        \A i \in 1..Len(response.body.items) :
            ( /\ response.body.items[i].key = "error"
              /\ response.body.items[i].value.t = "str"
              /\ response.body.items[i].value.s # "" ) =>
                output_layout =
                    <<ErrorLabel("API request returned error: "
                                 \o response.body.items[i].value.s)>>

\* The response {"error": "Not enough parameters", "key": "1"} was rendered.
C5_Reached ==
    /\ lastOp \in QueryOps
    /\ response.status_code = 200
    /\ Len(response.body.items) = 2
    /\ output_layout =
           <<[kind |-> "error_label",
              text |-> "<span style='color:red;'>ERROR: API request returned error: Not enough parameters</span>"]>>

\* The "error" field of a JSON object is absent, null or the empty string.
NoApiError(items) ==
    \A i \in 1..Len(items) :
        items[i].key = "error" =>
            \/ items[i].value.t = "null"
            \/ (items[i].value.t = "str" /\ items[i].value.s = "")

\* C6: after a query answered with status 200 and a JSON object with no
\* "error" field, or an empty or null one, the panel holds one row per
\* top-level key of the body, in the body's order: the label "<key>:" and
\* the stringified value, the "error" key included.
C6_SuccessRows ==
    (lastOp \in QueryOps /\ response.status_code = 200
                         /\ response.body.kind = "object"
                         /\ NoApiError(response.body.items)) =>
        /\ raised = "none"
        /\ Len(output_layout) = 2 * Len(response.body.items)
        /\ \A i \in 1..Len(response.body.items) :
               /\ output_layout[2 * i - 1] =
                      [kind |-> "key_label",
                       text |-> response.body.items[i].key \o ":"]
               /\ output_layout[2 * i] =
                      [kind |-> "value_label",
                       text |-> Str(response.body.items[i].value)]

\* The response with "error": null was rendered, the error row last.
C6_Reached ==
    /\ lastOp \in QueryOps
    /\ Len(output_layout) = 6
    /\ output_layout[1].text = "activity:"
    /\ output_layout[2].text = "Learn a new language"
    /\ output_layout[5].text = "error:"
    /\ output_layout[6].text = "None"

\* C7: after a query handler the panel holds only what that handler
\* produced: exactly one error label, or exactly the rows of the response it
\* received with no error label among them, or nothing when the handler
\* ended with an exception.
C7_OnlyLatest ==
    lastOp \in QueryOps =>
        \/ /\ Len(output_layout) = 1
           /\ output_layout[1].kind = "error_label"
           /\ \/ request = NoRequest
              \/ response.status_code # 200
              \/ \E i \in 1..Len(response.body.items) :
                     response.body.items[i].key = "error"
        \/ /\ raised = "none"
           /\ response.status_code = 200
           /\ Len(output_layout) = 2 * Len(response.body.items)
           /\ \A i \in 1..Len(response.body.items) :
                  /\ output_layout[2 * i - 1].kind = "key_label"
                  /\ output_layout[2 * i - 1].text = response.body.items[i].key \o ":"
                  /\ output_layout[2 * i].kind = "value_label"
                  /\ output_layout[2 * i].text = Str(response.body.items[i].value)
        \/ /\ raised # "none"
           /\ output_layout = <<>>

\* A query that ends in an error ran on a panel that showed three rows.
C7_Reached ==
    /\ lastOp \in QueryOps
    /\ deleted = 6
    /\ response.status_code = 404
    /\ Len(output_layout) = 1

\* C8: no query string sent by query_multi holds a mintype= or a maxtype=
\* parameter.
C8_TypeExactOnly ==
    lastOp = "query_multi" =>
        /\ ~ContainsParam(request, Min("type"))
        /\ ~ContainsParam(request, Max("type"))

\* C8 for the forms none of whose fields holds a "&".
C8_TypeExactOnly_Plain == PlainForm => C8_TypeExactOnly

\* The hidden range fields of type are never filled.
C8_HiddenFieldsEmpty ==
    /\ d_multi_input_min_fields["type"] = Empty
    /\ d_multi_input_max_fields["type"] = Empty

\* Some field of some parameter is non-empty, so the loop appends a fragment.
Contributes ==
    \E n \in ParamNames :
        \/ d_multi_input_fields[n] # Empty
        \/ d_multi_input_min_fields[n] # Empty
        \/ d_multi_input_max_fields[n] # Empty

\* C9 as stated: the URL query_multi sends always ends with "&".
C9_TrailingSeparator ==
    lastOp = "query_multi" => request[Len(request)] = "&"

\* C9 amended: the URL query_multi sends ends with "&" when some field is
\* non-empty, and is the base URL followed by "?" when every field is empty.
C9_TrailingSeparatorWhenFilled ==
    lastOp = "query_multi" =>
        IF Contributes
        THEN request[Len(request)] = "&"
        ELSE request = BORED_API_URL \o <<"?">>

\* query_multi ran with only a range filled in.
C9_Reached ==
    /\ lastOp = "query_multi"
    /\ d_multi_input_min_fields["price"] = <<"1">>
    /\ d_multi_input_max_fields["price"] = <<"2">>
    /\ request = BORED_API_URL
                 \o <<"?","m","i","n","p","r","i","c","e","=","1","&",
                      "m","a","x","p","r","i","c","e","=","2","&">>

AllFieldsEmpty ==
    /\ key_input_field = Empty
    /\ \A n \in ParamNames :
           /\ d_multi_input_fields[n] = Empty
           /\ d_multi_input_min_fields[n] = Empty
           /\ d_multi_input_max_fields[n] = Empty

\* C10: a step of _clear leaves every field empty, the panel as it was and
\* sends no request; a step of a query handler leaves every field as it was.
C10_ClearAndFrame ==
    [][ /\ lastOp' = "_clear" =>
            /\ AllFieldsEmpty'
            /\ output_layout' = output_layout
            /\ request' = NoRequest
        /\ lastOp' \in QueryOps => form' = form ]_vars

\* _clear ran on a panel that showed three rows, and the rows are still there.
C10_Reached ==
    /\ lastOp = "_clear"
    /\ AllFieldsEmpty
    /\ Len(output_layout) = 6

====
